---- MODULE Spec2Model ----
(***************************************************************************)
(* Function-calling notebooks of openai-investigations: the request helper *)
(* chat_completion_request under its tenacity retry decorator, the         *)
(* dispatch sites of the five notebooks, and do_conversation, the two      *)
(* round-trip driver of the Chinook notebook.                              *)
(***************************************************************************)
EXTENDS Integers, Sequences, FiniteSets, TLC

(***************************************************************************)
(* Python values.  Every value is a record of one shape, so that any two   *)
(* values can be compared.  A str is a sequence of pieces; strings that    *)
(* the code walks character by character are given one character a piece.  *)
(***************************************************************************)
None == [k |-> "none", n |-> 0, s |-> <<>>, items |-> <<>>, fields |-> <<>>]

Num(i) == [k |-> "num", n |-> i, s |-> <<>>, items |-> <<>>, fields |-> <<>>]

Str(pieces) == [k |-> "str", n |-> 0, s |-> pieces, items |-> <<>>, fields |-> <<>>]

Arr(elems) == [k |-> "arr", n |-> 0, s |-> <<>>, items |-> elems, fields |-> <<>>]

Obj(members) == [k |-> "obj", n |-> 0, s |-> <<>>, items |-> <<>>, fields |-> members]

Member(key, val) == [key |-> key, val |-> val]

\* An exception object: its class in s[1], its message after it.
Exc(class, msg) == [k |-> "exc", n |-> 0, s |-> <<class>> \o msg, items |-> <<>>, fields |-> <<>>]

NoFault == "none"

(***************************************************************************)
(* JSON text is a sequence of tokens; json.loads parses it.                *)
(***************************************************************************)
Tok(t) == [t |-> t, n |-> 0, s |-> <<>>]

TNum(i) == [t |-> "num", n |-> i, s |-> <<>>]

TStr(pieces) == [t |-> "str", n |-> 0, s |-> pieces]

LB == Tok("{")

RB == Tok("}")

LS == Tok("[")

RS == Tok("]")

CO == Tok(":")

CM == Tok(",")

ParseFail == [ok |-> FALSE, val |-> None, rest |-> <<>>]

Parsed(v, rest) == [ok |-> TRUE, val |-> v, rest |-> rest]

RECURSIVE ParseValue(_)
RECURSIVE ParseElements(_, _)
RECURSIVE ParseMembers(_, _)

\* elements after "[": value ("," value)* "]"
ParseElements(toks, acc) ==
    LET r == ParseValue(toks)
    IN  IF ~r.ok \/ r.rest = <<>> THEN ParseFail
        ELSE IF Head(r.rest) = RS THEN Parsed(Arr(Append(acc, r.val)), Tail(r.rest))
        ELSE IF Head(r.rest) = CM THEN ParseElements(Tail(r.rest), Append(acc, r.val))
        ELSE ParseFail

\* members after "{": string ":" value ("," string ":" value)* "}"
ParseMembers(toks, acc) ==
    IF Len(toks) < 2 \/ Head(toks).t # "str" \/ toks[2] # CO THEN ParseFail
    ELSE LET r == ParseValue(SubSeq(toks, 3, Len(toks)))
             m == Member(Head(toks).s, r.val)
         IN  IF ~r.ok \/ r.rest = <<>> THEN ParseFail
             ELSE IF Head(r.rest) = RB THEN Parsed(Obj(Append(acc, m)), Tail(r.rest))
             ELSE IF Head(r.rest) = CM THEN ParseMembers(Tail(r.rest), Append(acc, m))
             ELSE ParseFail

ParseValue(toks) ==
    IF toks = <<>> THEN ParseFail
    ELSE LET h == Head(toks)
             rest == Tail(toks)
         IN  CASE h.t = "num" -> Parsed(Num(h.n), rest)
               [] h.t = "str" -> Parsed(Str(h.s), rest)
               [] h.t = "null" -> Parsed(None, rest)
               [] h.t = "[" -> IF rest # <<>> /\ Head(rest) = RS
                                THEN Parsed(Arr(<<>>), Tail(rest))
                                ELSE ParseElements(rest, <<>>)
               [] h.t = "{" -> IF rest # <<>> /\ Head(rest) = RB
                                THEN Parsed(Obj(<<>>), Tail(rest))
                                ELSE ParseMembers(rest, <<>>)
               [] OTHER -> ParseFail

\* json.loads(text): the parsed value, or JSONDecodeError when the text is
\* no JSON value or has trailing tokens.
json_loads(text) ==
    LET r == ParseValue(text)
    IN  IF r.ok /\ r.rest = <<>>
        THEN [fault |-> NoFault, val |-> r.val]
        ELSE [fault |-> "JSONDecodeError", val |-> None]

(***************************************************************************)
(* Python operations the dispatch sites and handlers apply to parsed       *)
(* arguments.  Each returns [fault, val]: fault is the exception class     *)
(* raised, or NoFault.                                                     *)
(***************************************************************************)
Ok(v) == [fault |-> NoFault, val |-> v]

Raise(class) == [fault |-> class, val |-> None]

RECURSIVE LastIndex(_, _, _)
\* index of the last member named key among the first i members, 0 if none;
\* a member's key is a str's pieces, key a one-piece name
LastIndex(members, key, i) ==
    IF i = 0 THEN 0
    ELSE IF members[i].key = <<key>> THEN i
    ELSE LastIndex(members, key, i - 1)

HasKey(v, key) == v.k = "obj" /\ LastIndex(v.fields, key, Len(v.fields)) # 0

\* v[key] for a str key: a dict gives the value or KeyError, anything else
\* TypeError.
Subscript(v, key) ==
    IF v.k = "obj"
    THEN IF HasKey(v, key)
         THEN Ok(v.fields[LastIndex(v.fields, key, Len(v.fields))].val)
         ELSE Raise("KeyError")
    ELSE Raise("TypeError")

\* iter(v): the elements of a list, the characters of a str, the keys of a
\* dict; TypeError for a number or None.  val is an Arr of the elements.
Iterate(v) ==
    CASE v.k = "arr" -> Ok(v)
      [] v.k = "str" -> Ok(Arr([i \in 1..Len(v.s) |-> Str(<<v.s[i]>>)]))
      [] v.k = "obj" -> Ok(Arr([i \in 1..Len(v.fields) |-> Str(v.fields[i].key)]))
      [] OTHER -> Raise("TypeError")

RECURSIVE Rep(_, _)
\* seq * n
Rep(seq, n) == IF n <= 0 THEN <<>> ELSE seq \o Rep(seq, n - 1)

\* a + b as sum() applies it, a being the running int total
PyAdd(a, b) ==
    IF a.k = "num" /\ b.k = "num" THEN Ok(Num(a.n + b.n)) ELSE Raise("TypeError")

\* a * b
PyMul(a, b) ==
    CASE a.k = "num" /\ b.k = "num" -> Ok(Num(a.n * b.n))
      [] a.k = "num" /\ b.k = "str" -> Ok(Str(Rep(b.s, a.n)))
      [] a.k = "str" /\ b.k = "num" -> Ok(Str(Rep(a.s, b.n)))
      [] a.k = "num" /\ b.k = "arr" -> Ok(Arr(Rep(b.items, a.n)))
      [] a.k = "arr" /\ b.k = "num" -> Ok(Arr(Rep(a.items, b.n)))
      [] OTHER -> Raise("TypeError")

RECURSIVE SumLoop(_, _, _)
\* sum(args) from its i-th element on, acc the total so far; it stops at the
\* first fault
SumLoop(acc, args, i) ==
    IF i > Len(args) THEN Ok(acc)
    ELSE IF PyAdd(acc, args[i]).fault # NoFault THEN PyAdd(acc, args[i])
    ELSE SumLoop(PyAdd(acc, args[i]).val, args, i + 1)

RECURSIVE MulLoop(_, _, _)
\* the loop "for i in args: rc = rc * i" from the i-th element on
MulLoop(rc, args, i) ==
    IF i > Len(args) THEN Ok(rc)
    ELSE IF PyMul(rc, args[i]).fault # NoFault THEN PyMul(rc, args[i])
    ELSE MulLoop(PyMul(rc, args[i]).val, args, i + 1)

(***************************************************************************)
(* The handlers.  args is the sequence of positional arguments.            *)
(***************************************************************************)
\* def add(*args): return sum(args)
add(args) == SumLoop(Num(0), args, 1)

\* multiply with its accumulator started at 0
multiply_from_zero(args) == MulLoop(Num(0), args, 1)

\* def multiply(*args): rc = 1; for i in args: rc = rc * i; return rc
multiply(args) == MulLoop(Num(1), args, 1)

Letters == <<"a", "b", "e", "h", "i", "l", "m", "o", "s">>

Capitals == <<"A", "B", "E", "H", "I", "L", "M", "O", "S">>

\* the one character U+00DF, a lower case letter whose upper case is "SS"
SharpS == "U+00DF"

RECURSIVE CaseMap(_, _, _, _)
\* the piece ch mapped from alphabet from to alphabet to; other characters
\* (a space) are unchanged
CaseMap(ch, from, to, i) ==
    IF i > Len(from) THEN ch
    ELSE IF from[i] = ch THEN to[i]
    ELSE CaseMap(ch, from, to, i + 1)

RECURSIVE lower(_)
\* c.lower(): every character mapped to its lower case
lower(c) ==
    IF c = <<>> THEN <<>>
    ELSE <<CaseMap(Head(c), Capitals, Letters, 1)>> \o lower(Tail(c))

RECURSIVE upper(_)
\* c.upper(): every character mapped to its upper case, which for U+00DF is
\* two characters
upper(c) ==
    IF c = <<>> THEN <<>>
    ELSE (IF Head(c) = SharpS THEN <<"S", "S">>
          ELSE <<CaseMap(Head(c), Letters, Capitals, 1)>>) \o upper(Tail(c))

RECURSIVE AlternateLoop(_, _, _)
\* the loop body of alternate_cases from 0-based index i on; rc the str so
\* far.  The test of the loop is i % 2 == 0, lower case on even indices, as
\* the recorded output 'hElLo i aM BoB' shows.
AlternateLoop(elems, i, rc) ==
    IF i >= Len(elems) THEN Ok(Str(rc))
    ELSE LET c == elems[i + 1]
         IN  IF c.k # "str" THEN Raise("AttributeError")
             ELSE AlternateLoop(elems, i + 1,
                      rc \o (IF i % 2 = 0 THEN lower(c.s) ELSE upper(c.s)))

\* def alternate_cases(input)
alternate_cases(input) ==
    LET it == Iterate(input)
    IN  IF it.fault # NoFault THEN it ELSE AlternateLoop(it.val.items, 0, <<>>)

SentimentParams == {<<"sentiment">>, <<"initialInput">>, <<"sentimentScore">>, <<"algorithm">>}

\* def sentiment(sentiment="", initialInput="", sentimentScore=0,
\* algorithm="chatgpt magic"): prints a line, returns None
sentiment(f_args) == Ok(None)

\* the call sentiment(**f_args) before the body runs: f_args must be a
\* mapping, and each of its keys a parameter name
BindKeywords(f_args) ==
    IF f_args.k # "obj" THEN Raise("TypeError")
    ELSE IF \E i \in 1..Len(f_args.fields) : f_args.fields[i].key \notin SentimentParams
    THEN Raise("TypeError")
    ELSE Ok(f_args)

\* def coffee(coffee_order): prints json.dumps(coffee_order), returns None
coffee(coffee_order) == Ok(None)

(***************************************************************************)
(* The database behind conn: the queries it answers, with the rows the     *)
(* notebook records for them.  Any other str is a syntax error, any value  *)
(* that is no str a TypeError of conn.execute.                             *)
(***************************************************************************)
CountArtists == <<"select count(*) from artists">>

conn_execute(query) ==
    IF query.k # "str" THEN [fault |-> "TypeError", val |-> Exc("TypeError", <<"execute() argument 1 must be str">>)]
    ELSE IF query.s = CountArtists THEN Ok(Str(<<"[(275,)]">>))
    ELSE [fault |-> "OperationalError", val |-> Exc("OperationalError", <<"syntax error">>)]

QueryFailedPrefix == "query failed with error: "

\* ask_database without its try: a failure of conn.execute leaves it
ask_database_uncaught(query) ==
    LET r == conn_execute(query)
    IN  IF r.fault = NoFault THEN Ok(r.val) ELSE Raise(r.fault)

\* def ask_database(conn, query)
ask_database(query) ==
    LET r == conn_execute(query)
    IN  IF r.fault = NoFault THEN Ok(r.val)
        ELSE Ok(Str(<<QueryFailedPrefix>> \o Tail(r.val.s)))

(***************************************************************************)
(* The function_call argument texts the model may return: well-formed      *)
(* payloads for each declared function, payloads that lack the field a     *)
(* site reads or hold values of another type, JSON that is no object, and  *)
(* truncated JSON.                                                         *)
(***************************************************************************)
P_add == <<LB, TStr(<<"input">>), CO, LS, TNum(5), CM, TNum(34), CM, TNum(100), RS, RB>>

P_empty == <<LB, TStr(<<"input">>), CO, LS, RS, RB>>

P_strs == <<LB, TStr(<<"input">>), CO, LS, TStr(<<"a">>), CM, TStr(<<"b">>), RS, RB>>

\* "hello I am Bob", a character a piece
HelloBob == <<"h", "e", "l", "l", "o", " ", "I", " ", "a", "m", " ", "B", "o", "b">>

P_hello == <<LB, TStr(<<"input">>), CO, TStr(HelloBob), RB>>

P_sharp == <<LB, TStr(<<"input">>), CO, TStr(<<"a", SharpS>>), RB>>

P_pair == <<LB, TStr(<<"input">>), CO, LS, TNum(2), CM, TNum(-3), RS, RB>>

P_inputnum == <<LB, TStr(<<"input">>), CO, TNum(7), RB>>

P_query == <<LB, TStr(<<"query">>), CO, TStr(CountArtists), RB>>

P_badquery == <<LB, TStr(<<"query">>), CO, TStr(<<"selec count(*)">>), RB>>

P_querynum == <<LB, TStr(<<"query">>), CO, TNum(7), RB>>

P_sentiment ==
    <<LB, TStr(<<"sentiment">>), CO, TStr(<<"Negative">>), CM,
          TStr(<<"sentimentScore">>), CO, TNum(-1), CM,
          TStr(<<"initialInput">>), CO, TStr(<<"Oh no">>), CM,
          TStr(<<"algorithm">>), CO, TStr(<<"nlp">>), RB>>

P_order ==
    <<LB, TStr(<<"order">>), CO, LB, TStr(<<"coffee_type">>), CO, TStr(<<"latte">>), CM,
          TStr(<<"sugar_count">>), CO, TNum(2), RB, RB>>

P_args == <<LB, TStr(<<"args">>), CO, LS, TNum(2), CM, TNum(3), RS, RB>>

P_nofield == <<LB, RB>>

P_number == <<TNum(7)>>

\* P_add cut off after its second number
P_truncated == SubSeq(P_add, 1, 7)

Payloads ==
    {P_add, P_empty, P_pair, P_strs, P_hello, P_sharp, P_inputnum, P_query, P_badquery, P_querynum,
     P_sentiment, P_order, P_args, P_nofield, P_number, P_truncated}

(***************************************************************************)
(* Turns (messages).  A key a dict lacks is recorded as "absent": the      *)
(* function_call of a turn is absent, null, or a call {name, arguments};   *)
(* name is "" on turns without a name key.                                 *)
(***************************************************************************)
NoCall(state) == [state |-> state, name |-> "", arguments |-> <<>>]

Call(name, arguments) == [state |-> "call", name |-> name, arguments |-> arguments]

Turn(role, content, fc, name) ==
    [role |-> role, content |-> content, function_call |-> fc, name |-> name]

SystemTurn(text) == Turn("system", Str(<<text>>), NoCall("absent"), "")

UserTurn(input) == Turn("user", input, NoCall("absent"), "")

\* a function turn that names the one declared function whatever was called
FunctionTurn_fixed_name(assistant_message, results) ==
    Turn("function", results, NoCall("absent"), "ask_database")

\* {"role": "function", "content": results, "name": <function_call name>}
FunctionTurn(assistant_message, results) ==
    Turn("function", results, NoCall("absent"), assistant_message.function_call.name)

\* message.get("function_call") is truthy, and
\* 'function_call' in message and message['function_call'] is not None
CarriesCall(message) == message.function_call.state = "call"

(***************************************************************************)
(* The five notebooks: what each registers, sends and reads.               *)
(***************************************************************************)
Notebooks == {"chinook", "addmul", "altcase", "sentiment", "coffee"}

\* the names of the functions list sent to the model, in order
functions(nb) ==
    CASE nb = "chinook" -> <<"ask_database">>
      [] nb = "addmul" -> <<"multiply", "add">>
      [] nb = "altcase" -> <<"multiply", "alternate_cases">>
      [] nb = "sentiment" -> <<"sentiment">>
      [] nb = "coffee" -> <<"coffee">>

\* the keys of available_functions / available_funcs; the Chinook notebook
\* has no table, execute_function_call compares with "ask_database"
available_functions(nb) ==
    CASE nb = "chinook" -> {"ask_database"}
      [] nb = "addmul" -> {"multiply", "add"}
      [] nb = "altcase" -> {"multiply", "alternate_cases"}
      [] nb = "sentiment" -> {"sentiment"}
      [] nb = "coffee" -> {"coffee"}

\* a property of a function's "parameters": its name, its JSON type, and the
\* type of its items when it is an array
Property(name, type, items) == [name |-> name, type |-> type, items |-> items]

\* the "properties" each entry of a notebook's functions list declares
properties(nb, name) ==
    CASE nb = "chinook" /\ name = "ask_database" -> <<Property("query", "string", "")>>
      [] nb = "addmul" /\ name \in {"multiply", "add"} -> <<Property("input", "array", "number")>>
      [] nb = "altcase" /\ name = "multiply" -> <<Property("args", "array", "number")>>
      [] nb = "altcase" /\ name = "alternate_cases" -> <<Property("input", "string", "")>>
      [] nb = "sentiment" /\ name = "sentiment" ->
            <<Property("sentiment", "string", ""), Property("sentimentScore", "number", ""),
              Property("initialInput", "string", ""), Property("algorithm", "string", "")>>
      [] nb = "coffee" /\ name = "coffee" -> <<Property("order", "object", "")>>
      [] OTHER -> <<>>

\* the key each dispatch site subscripts the parsed arguments with; the
\* sentiment site passes them whole
required_field(nb) ==
    CASE nb = "chinook" -> "query"
      [] nb = "addmul" -> "input"
      [] nb = "altcase" -> "input"
      [] nb = "coffee" -> "order"
      [] OTHER -> ""

Absent == [present |-> FALSE, name |-> ""]

Forced(name) == [present |-> TRUE, name |-> name]

\* the function_call argument of the first request: the forced function
first_function_call(nb) ==
    CASE nb = "chinook" -> Forced("ask_database")
      [] nb = "sentiment" -> Forced("sentiment")
      [] OTHER -> Absent

SystemPrompt(nb) ==
    CASE nb = "chinook" -> "Answer user questions by generating SQL queries against the Chinook Music Database."
      [] nb = "addmul" -> "Answer user questions returning function arguments"
      [] nb = "altcase" -> "respond to user input"
      [] nb = "sentiment" -> "Analyse user input returning function arguments"
      [] nb = "coffee" -> "Extract user input into structured data"

\* the user inputs each notebook runs, in order
inputs(nb) ==
    CASE nb = "chinook" -> <<Str(<<"Which artists include Santana?">>),
                             Str(<<"Which customer has the most eclectic taste in music. Show their name and ID">>),
                             Str(<<"how many artists are there?">>)>>
      [] nb = "addmul" -> <<Str(<<"What is five plus 34 + one hundred">>)>>
      [] nb = "altcase" -> <<Str(<<"alternate cases in this sentence: 'hello I am Bob'">>)>>
      [] nb = "sentiment" -> <<Str(<<"Oh no, another KenWhat meeting to endure">>),
                               Str(<<"Great! another  KenWhat meeting to savour">>),
                               Str(<<"I am going to listen to two hours of talks with some modest degree of enthusiasm">>)>>
      [] nb = "coffee" -> <<Str(<<"I'd like a tall cold latte please with 2 sugars and hazelnut syrup">>),
                            Str(<<"What's the weather in London">>)>>

\* the messages list as the notebook's cells leave it before the first
\* exchange: a global list in three notebooks, built per exchange in two
initial_messages(nb) ==
    CASE nb = "addmul" -> <<SystemTurn(SystemPrompt(nb)), UserTurn(inputs(nb)[1])>>
      [] nb = "altcase" -> <<SystemTurn(SystemPrompt(nb)), UserTurn(inputs(nb)[1])>>
      [] nb = "sentiment" -> <<SystemTurn(SystemPrompt(nb)), UserTurn(Str(<<"Replace me">>))>>
      [] OTHER -> <<>>

(***************************************************************************)
(* Output and handler invocations, as the sites produce them.              *)
(***************************************************************************)
Line(ev, val) == [ev |-> ev, val |-> val, msgs |-> <<>>]

\* pretty_print_conversation(messages): renders the turns, role by role
pretty_print_conversation(msgs) == [ev |-> "conversation", val |-> None, msgs |-> msgs]

Invocation(name, conv, args) == [name |-> name, conv |-> conv, args |-> args]

\* what a dispatch site did: the fault it raised (NoFault if none), its
\* result, the handler invocations it made, and what it printed
Outcome(fault, result, calls, out) ==
    [fault |-> fault, result |-> result, invoked |-> calls, out |-> out]

\* the body of the handler registered under name, run on the positional
\* arguments args; sentiment takes its keywords as one mapping
Handler(name, args) ==
    CASE name = "add" -> add(args)
      [] name = "multiply" -> multiply(args)
      [] name = "alternate_cases" ->
            IF Len(args) = 1 THEN alternate_cases(args[1]) ELSE Raise("TypeError")
      [] name = "sentiment" -> sentiment(args[1])
      [] name = "coffee" ->
            IF Len(args) = 1 THEN coffee(args[1]) ELSE Raise("TypeError")
      [] name = "ask_database" -> ask_database(args[1])

\* what the handler prints when it runs to its end
HandlerOutput(name, args) ==
    CASE name = "sentiment" -> <<Line("sentiment", args[1])>>
      [] name = "coffee" -> <<Line("Ordering coffee", args[1])>>
      [] OTHER -> <<>>

\* f"Error: function {name} does not exist"
DoesNotExist(name) == Str(<<"Error: function ", name, " does not exist">>)

\* a table lookup in place of the else branch: an unknown name is a KeyError
execute_function_call_lookup(message) ==
    IF message.function_call.name = "ask_database"
    THEN LET parsed == json_loads(message.function_call.arguments)
             query == Subscript(parsed.val, "query")
         IN  IF parsed.fault # NoFault THEN Outcome(parsed.fault, None, <<>>, <<>>)
             ELSE IF query.fault # NoFault THEN Outcome(query.fault, None, <<>>, <<>>)
             ELSE IF ask_database(query.val).fault # NoFault
             THEN Outcome(ask_database(query.val).fault, None,
                          <<Invocation("ask_database", "single", <<query.val>>)>>, <<>>)
             ELSE Outcome(NoFault, ask_database(query.val).val,
                          <<Invocation("ask_database", "single", <<query.val>>)>>, <<>>)
    ELSE Outcome("KeyError", None, <<>>, <<>>)

\* execute_function_call without its test of the name: whatever is called,
\* the query is run
execute_function_call_any_name(message) ==
    LET parsed == json_loads(message.function_call.arguments)
        query == Subscript(parsed.val, "query")
    IN  IF parsed.fault # NoFault THEN Outcome(parsed.fault, None, <<>>, <<>>)
        ELSE IF query.fault # NoFault THEN Outcome(query.fault, None, <<>>, <<>>)
        ELSE Outcome(NoFault, ask_database(query.val).val,
                     <<Invocation("ask_database", "single", <<query.val>>)>>, <<>>)

\* Chinook notebook: def execute_function_call(message)
execute_function_call(message) ==
    IF message.function_call.state = "absent" THEN Outcome("KeyError", None, <<>>, <<>>)
    ELSE IF message.function_call.state = "null" THEN Outcome("TypeError", None, <<>>, <<>>)
    ELSE IF message.function_call.name = "ask_database"
    THEN LET parsed == json_loads(message.function_call.arguments)
             query == Subscript(parsed.val, "query")
         IN  IF parsed.fault # NoFault THEN Outcome(parsed.fault, None, <<>>, <<>>)
             ELSE IF query.fault # NoFault THEN Outcome(query.fault, None, <<>>, <<>>)
             ELSE IF ask_database(query.val).fault # NoFault
             THEN Outcome(ask_database(query.val).fault, None,
                          <<Invocation("ask_database", "single", <<query.val>>)>>, <<>>)
             ELSE Outcome(NoFault, ask_database(query.val).val,
                          <<Invocation("ask_database", "single", <<query.val>>)>>, <<>>)
    ELSE Outcome(NoFault, DoesNotExist(message.function_call.name), <<>>, <<>>)

\* a call available_functions[to_call](...) with the arguments already
\* evaluated: the lookup, the invocation, then the statements after it
Invoke(nb, to_call, conv, args, printsResult) ==
    IF to_call \notin available_functions(nb) THEN Outcome("KeyError", None, <<>>, <<>>)
    ELSE IF conv = "keyword" /\ BindKeywords(args[1]).fault # NoFault
    THEN Outcome(BindKeywords(args[1]).fault, None, <<>>, <<>>)
    ELSE LET r == Handler(to_call, args)
             calls == <<Invocation(to_call, conv, args)>>
         IN  IF r.fault # NoFault THEN Outcome(r.fault, None, calls, <<>>)
             ELSE Outcome(NoFault, r.val, calls,
                          HandlerOutput(to_call, args)
                          \o (IF printsResult THEN <<Line("result", r.val)>> ELSE <<>>))

\* add/multiply notebook: result = available_functions[to_call](*f_args)
dispatch_addmul(response_message) ==
    IF CarriesCall(response_message)
    THEN LET to_call == response_message.function_call.name
             parsed == json_loads(response_message.function_call.arguments)
             f_args == Subscript(parsed.val, "input")
             spread == Iterate(f_args.val)
         IN  IF parsed.fault # NoFault THEN Outcome(parsed.fault, None, <<>>, <<>>)
             ELSE IF f_args.fault # NoFault THEN Outcome(f_args.fault, None, <<>>, <<>>)
             ELSE IF to_call \notin available_functions("addmul")
             THEN Outcome("KeyError", None, <<>>, <<>>)
             ELSE IF spread.fault # NoFault THEN Outcome(spread.fault, None, <<>>, <<>>)
             ELSE Invoke("addmul", to_call, "positional", spread.val.items, TRUE)
    ELSE Outcome(NoFault, None, <<>>,
                 <<Line("no function was returned", response_message.content)>>)

RECURSIVE filter_by_name(_, _)
\* list(filter(lambda x: x['name'] == name, specs)): the entries of specs
\* named name, in order
filter_by_name(specs, name) ==
    IF specs = <<>> THEN <<>>
    ELSE (IF Head(specs) = name THEN <<Head(specs)>> ELSE <<>>)
         \o filter_by_name(Tail(specs), name)

\* list(filter(...))[0]: the first entry named name, IndexError when the
\* filtered list is empty
find(specs, name) ==
    IF filter_by_name(specs, name) = <<>> THEN Raise("IndexError")
    ELSE Ok(Str(<<Head(filter_by_name(specs, name))>>))

\* alternate_cases notebook: print(available_funcs[funcName](args['input']))
dispatch_altcase(mess) ==
    IF mess.function_call.state = "absent" THEN Outcome("KeyError", None, <<>>, <<>>)
    ELSE IF mess.function_call.state = "null" THEN Outcome(NoFault, None, <<>>, <<>>)
    ELSE LET funcName == mess.function_call.name
             args == json_loads(mess.function_call.arguments)
             input == Subscript(args.val, "input")
             toExecute == find(functions("altcase"), funcName)
         IN  IF toExecute.fault # NoFault
             THEN Outcome(toExecute.fault, None, <<>>, <<>>)
             ELSE IF args.fault # NoFault THEN Outcome(args.fault, None, <<>>, <<>>)
             ELSE IF funcName \notin available_functions("altcase")
             THEN Outcome("KeyError", None, <<>>, <<>>)
             ELSE IF input.fault # NoFault THEN Outcome(input.fault, None, <<>>, <<>>)
             ELSE Invoke("altcase", funcName, "single", <<input.val>>, TRUE)

\* sentiment notebook: result = available_functions[to_call](**f_args)
dispatch_sentiment(response_message) ==
    IF CarriesCall(response_message)
    THEN LET to_call == response_message.function_call.name
             f_args == json_loads(response_message.function_call.arguments)
         IN  IF f_args.fault # NoFault THEN Outcome(f_args.fault, None, <<>>, <<>>)
             ELSE Invoke("sentiment", to_call, "keyword", <<f_args.val>>, FALSE)
    ELSE Outcome(NoFault, None, <<>>,
                 <<Line("no function was returned", response_message.content)>>)

\* coffee notebook: result = available_functions[to_call](f_args)
dispatch_coffee(response_message) ==
    IF CarriesCall(response_message)
    THEN LET to_call == response_message.function_call.name
             parsed == json_loads(response_message.function_call.arguments)
             f_args == Subscript(parsed.val, "order")
         IN  IF parsed.fault # NoFault THEN Outcome(parsed.fault, None, <<>>, <<>>)
             ELSE IF f_args.fault # NoFault THEN Outcome(f_args.fault, None, <<>>, <<>>)
             ELSE Invoke("coffee", to_call, "single", <<f_args.val>>, FALSE)
    ELSE Outcome(NoFault, None, <<>>, <<Line("no function was returned", None)>>)

\* the dispatch site of each notebook
Dispatch(nb, message) ==
    CASE nb = "chinook" -> execute_function_call(message)
      [] nb = "addmul" -> dispatch_addmul(message)
      [] nb = "altcase" -> dispatch_altcase(message)
      [] nb = "sentiment" -> dispatch_sentiment(message)
      [] nb = "coffee" -> dispatch_coffee(message)

(***************************************************************************)
(* The chat completion call.                                               *)
(***************************************************************************)
GPT_MODEL == "gpt-4"

\* stop=stop_after_attempt(3)
MaxAttempts == 3

\* the number of do_conversation calls of one session of the Chinook notebook
MaxExchanges == 2

NoMessage == Turn("", None, NoCall("absent"), "")

NoResponse == [kind |-> "none", body |-> "", message |-> NoMessage]

\* the exception object requests.post raised
PostException == [kind |-> "exception", body |-> "", message |-> NoMessage]

\* an HTTP response whose JSON body holds choices[0].message
Response(message) == [kind |-> "response", body |-> "ok", message |-> message]

\* an HTTP response whose JSON body is an error object without choices
ErrorResponse == [kind |-> "response", body |-> "error", message |-> NoMessage]

Unicorn == "unicorn"

\* the messages the model may return to a notebook: a text answer without
\* the function_call key or with a null one, or a call of a registered or an
\* unregistered name with any of the payloads
ModelMessages(nb) ==
    {Turn("assistant", Str(<<"answer">>), NoCall(st), "") : st \in {"absent", "null"}}
    \cup {Turn("assistant", None, Call(name, arguments), "") :
             name \in available_functions(nb) \cup {Unicorn}, arguments \in Payloads}

\* what requests.post may do: raise, or return a response
Network(nb) ==
    {[raises |-> TRUE, response |-> NoResponse]}
    \cup {[raises |-> FALSE, response |-> r] :
             r \in {Response(m) : m \in ModelMessages(nb)} \cup {ErrorResponse}}

NoFunctions == [present |-> FALSE, list |-> <<>>]

Functions(list) == [present |-> TRUE, list |-> list]

\* json_data updated with both keys whether or not the arguments are None
json_data_keys_always(msgs, fns, function_call) ==
    [model |-> GPT_MODEL, messages |-> msgs,
     has_functions |-> TRUE, functions |-> fns.list,
     has_function_call |-> TRUE, function_call |-> function_call.name]

\* json_data = {"model": model, "messages": messages}, updated with
\* "functions" and "function_call" when they are not None
json_data(msgs, fns, function_call) ==
    [model |-> GPT_MODEL, messages |-> msgs,
     has_functions |-> fns.present, functions |-> fns.list,
     has_function_call |-> function_call.present, function_call |-> function_call.name]

\* one execution of the body of chat_completion_request: the fault it raises
\* (building the headers from a None api_key), else its return value, the
\* payload it posted and what it printed
chat_completion_request(key, msgs, fns, function_call, net) ==
    IF key = "None"
    THEN [fault |-> "TypeError", ret |-> NoResponse, post |-> <<>>, out |-> <<>>]
    ELSE IF net.raises
    THEN [fault |-> NoFault, ret |-> PostException,
          post |-> <<json_data(msgs, fns, function_call)>>,
          out |-> <<Line("Unable to generate ChatCompletion response", None),
                    Line("Exception", None)>>]
    ELSE [fault |-> NoFault, ret |-> net.response,
          post |-> <<json_data(msgs, fns, function_call)>>, out |-> <<>>]

\* a stop condition that is tested before the attempt is counted, so that
\* one more attempt is made
retry_one_more(fault, attempt_number) ==
    IF fault = NoFault THEN "return"
    ELSE IF attempt_number > MaxAttempts THEN "RetryError"
    ELSE "again"

\* @retry(..., stop=stop_after_attempt(3)): what tenacity does after an
\* attempt that raised fault (NoFault: it returned)
retry(fault, attempt_number) ==
    IF fault = NoFault THEN "return"
    ELSE IF attempt_number >= MaxAttempts THEN "RetryError"
    ELSE "again"

\* the functions and function_call arguments of the n-th request of an exchange
request_functions(nb, n) == IF n = 1 THEN Functions(functions(nb)) ELSE NoFunctions

\* the forced function passed on every request
request_function_call_always(nb, n) == first_function_call(nb)

request_function_call(nb, n) == IF n = 1 THEN first_function_call(nb) ELSE Absent

\* chat_response.json()["choices"][0]["message"]
JsonMessage(response) ==
    IF response.kind # "response" THEN Raise("AttributeError")
    ELSE IF response.body # "ok" THEN Raise("KeyError")
    ELSE Ok(response.message)

(***************************************************************************)
(* State.                                                                  *)
(***************************************************************************)
VARIABLES
    notebook,       \* the notebook that runs
    api_key,        \* openai.api_key: "set" or "None"
    pc,             \* idle, request, returned, done, raised
    exchange,       \* exchanges started so far
    user_input,     \* the input of the current exchange
    messages,       \* the messages list
    call_no,        \* which request of the exchange: 1, or 2 (the follow-up)
    attempt,        \* tenacity's attempt number within the current call
    chat_response,  \* what the last chat_completion_request call returned
    results,        \* the dispatch site's result
    fault,          \* the exception that ended the exchange, NoFault if none
    posts,          \* the payloads given to requests.post in this exchange
    printed,        \* what this exchange printed
    response_message, \* the message read from the first response (assistant_message, mess)
    dispatched,     \* the runs of the dispatch site's function branch in this exchange
    path            \* the driver states this exchange went through

vars == <<notebook, api_key, pc, exchange, user_input, messages, call_no, attempt, chat_response,
          results, fault, posts, printed, response_message, dispatched, path>>

Init ==
    /\ notebook \in Notebooks
    /\ api_key \in {"set", "None"}
    /\ pc = "idle"
    /\ exchange = 0
    /\ user_input = None
    /\ messages = initial_messages(notebook)
    /\ call_no = 0
    /\ attempt = 0
    /\ chat_response = NoResponse
    /\ results = None
    /\ fault = NoFault
    /\ posts = <<>>
    /\ printed = <<>>
    /\ response_message = NoMessage
    /\ dispatched = <<>>
    /\ path = <<>>

\* how many exchanges the notebook runs: the length of its input loop, or
\* the number of do_conversation calls
ExchangeLimit(nb) == IF nb = "chinook" THEN MaxExchanges ELSE Len(inputs(nb))

\* whether an exchange of the notebook binds messages to a new list
\* (messages = [...] in do_conversation and in the coffee loop) or works on
\* the list the earlier cells left
rebuilds_messages(nb) == nb \in {"chinook", "coffee"}

\* the global list sent as the earlier cells left it, without the current
\* input written into its user turn
start_messages_stale(nb, msgs, input) ==
    IF rebuilds_messages(nb) THEN <<SystemTurn(SystemPrompt(nb)), UserTurn(input)>> ELSE msgs

\* one list kept over the exchanges, each input appended to it as a new turn
start_messages_keeps(nb, msgs, input) ==
    IF msgs = <<>> THEN <<SystemTurn(SystemPrompt(nb)), UserTurn(input)>>
    ELSE Append(msgs, UserTurn(input))

\* the messages list at the first request of an exchange with input
start_messages(nb, msgs, input) ==
    CASE rebuilds_messages(nb) -> <<SystemTurn(SystemPrompt(nb)), UserTurn(input)>>
      [] nb = "sentiment" -> [msgs EXCEPT ![2].content = input]
      [] OTHER -> msgs

\* The start of an exchange up to its first request: do_conversation is
\* called, or the input loop takes its next input.  A faulted cell ends its
\* loop; do_conversation can be called again after a fault.
StartExchange ==
    /\ pc \in (IF notebook = "chinook" THEN {"idle", "done", "raised"} ELSE {"idle", "done"})
    /\ exchange < ExchangeLimit(notebook)
    /\ \E i \in 1..Len(inputs(notebook)) :
          /\ notebook # "chinook" => i = exchange + 1
          /\ user_input' = inputs(notebook)[i]
          /\ messages' = start_messages(notebook, messages, inputs(notebook)[i])
    /\ exchange' = exchange + 1
    /\ pc' = "request"
    /\ call_no' = 1
    /\ attempt' = 1
    /\ chat_response' = NoResponse
    /\ results' = None
    /\ fault' = NoFault
    /\ posts' = <<>>
    /\ printed' = <<>>
    /\ response_message' = NoMessage
    /\ dispatched' = <<>>
    /\ path' = <<"AwaitingModelDecision">>
    /\ UNCHANGED <<notebook, api_key>>

\* the current attempt of the current call, with the network doing net
ThisAttempt(net) ==
    chat_completion_request(api_key, messages, request_functions(notebook, call_no),
                            request_function_call(notebook, call_no), net)

\* An attempt of chat_completion_request returns: the call returns its value.
AttemptReturns ==
    /\ pc = "request"
    /\ \E net \in Network(notebook) :
          \E a \in {ThisAttempt(net)} :
              /\ retry(a.fault, attempt) = "return"
              /\ chat_response' = a.ret
              /\ posts' = posts \o a.post
              /\ printed' = printed \o a.out
    /\ pc' = "returned"
    /\ UNCHANGED <<notebook, api_key, exchange, user_input, messages, call_no, attempt,
                   results, fault, response_message, dispatched, path>>

\* An attempt raises and tenacity runs the body again.
AttemptRetried ==
    /\ pc = "request"
    /\ \E net \in Network(notebook) :
          \E a \in {ThisAttempt(net)} :
              /\ retry(a.fault, attempt) = "again"
              /\ posts' = posts \o a.post
              /\ printed' = printed \o a.out
    /\ attempt' = attempt + 1
    /\ UNCHANGED <<notebook, api_key, pc, exchange, user_input, messages, call_no,
                   chat_response, results, fault, response_message, dispatched, path>>

\* The last attempt raises: tenacity raises RetryError, which no caller
\* catches.
AttemptsExhausted ==
    /\ pc = "request"
    /\ \E net \in Network(notebook) :
          \E a \in {ThisAttempt(net)} :
              /\ retry(a.fault, attempt) = "RetryError"
              /\ posts' = posts \o a.post
              /\ printed' = printed \o a.out
    /\ pc' = "raised"
    /\ fault' = "RetryError"
    /\ UNCHANGED <<notebook, api_key, exchange, user_input, messages, call_no, attempt,
                   chat_response, results, response_message, dispatched, path>>

(***************************************************************************)
(* What the code does with a returned chat_response.  Each operator gives  *)
(* the values the step leaves: the fault that ended it (NoFault if none),  *)
(* the messages list, the result, the dispatches made, the lines printed,  *)
(* the driver states entered, and whether a follow-up request is next.     *)
(***************************************************************************)
Step(f, msgs, res, done, out, states, followUp) ==
    [fault |-> f, messages |-> msgs, results |-> res, dispatched |-> done, out |-> out,
     path |-> states, followUp |-> followUp]

\* the record of one run of a site's function branch on message with outcome d
Dispatched(message, d) ==
    [message |-> message, fault |-> d.fault, result |-> d.result, invoked |-> d.invoked]

\* do_conversation from the first response on: the assistant turn is
\* appended; with a function_call the call is executed and its result
\* appended as a function turn, before the second request; without one the
\* conversation is printed.
do_conversation_first(msgs, response) ==
    LET assistant_message == JsonMessage(response)
        appended == Append(msgs, assistant_message.val)
        call == execute_function_call(assistant_message.val)
    IN  IF assistant_message.fault # NoFault
        THEN Step(assistant_message.fault, msgs, None, <<>>, <<>>, <<>>, FALSE)
        ELSE IF ~CarriesCall(assistant_message.val)
        THEN Step(NoFault, appended, None, <<>>, <<pretty_print_conversation(appended)>>,
                  <<"DirectAnswer", "Answered">>, FALSE)
        ELSE IF call.fault # NoFault
        THEN Step(call.fault, appended, None, <<Dispatched(assistant_message.val, call)>>,
                  call.out, <<"FunctionRequested">>, FALSE)
        ELSE Step(NoFault, Append(appended, FunctionTurn(assistant_message.val, call.result)),
                  call.result, <<Dispatched(assistant_message.val, call)>>, call.out,
                  <<"FunctionRequested", "FunctionExecuted", "AwaitingFollowUp">>, TRUE)

\* a driver that treats every response as the first: a function_call in the
\* second response is executed and followed by one more request
do_conversation_second_loops(msgs, res, response) ==
    LET message == JsonMessage(response)
        appended == Append(msgs, message.val)
        call == execute_function_call(message.val)
    IN  IF message.fault # NoFault
        THEN Step(message.fault, msgs, res, <<>>, <<>>, <<>>, FALSE)
        ELSE IF CarriesCall(message.val) /\ call.fault = NoFault
        THEN Step(NoFault, Append(appended, FunctionTurn(message.val, call.result)),
                  call.result, <<Dispatched(message.val, call)>>, call.out,
                  <<"FunctionRequested", "FunctionExecuted", "AwaitingFollowUp">>, TRUE)
        ELSE Step(NoFault, appended, res, <<>>, <<pretty_print_conversation(appended)>>,
                  <<"Answered">>, FALSE)

\* do_conversation from the second response on: its message is appended and
\* the conversation printed; results keeps the value res it has.
do_conversation_second(msgs, res, response) ==
    LET message == JsonMessage(response)
        appended == Append(msgs, message.val)
    IN  IF message.fault # NoFault
        THEN Step(message.fault, msgs, res, <<>>, <<>>, <<>>, FALSE)
        ELSE Step(NoFault, appended, res, <<>>, <<pretty_print_conversation(appended)>>,
                  <<"Answered">>, FALSE)

\* whether the notebook's cell takes its function branch for message
TakesCallBranch(nb, message) ==
    IF nb = "altcase" THEN message.function_call.state = "call" ELSE CarriesCall(message)

\* the cell of the other notebooks from the response on: the message is read
\* (and printed, or appended and the conversation printed), then dispatched
cell(nb, msgs, response) ==
    LET response_msg == JsonMessage(response)
        m == response_msg.val
        appended == IF nb = "coffee" THEN Append(msgs, m) ELSE msgs
        before == CASE nb = "coffee" -> <<pretty_print_conversation(appended)>>
                    [] nb = "altcase" -> <<>>
                    [] OTHER -> <<Line("response_message", m.content)>>
        after == IF nb = "coffee" THEN <<Line("-----", None), Line("-----", None)>> ELSE <<>>
        d == Dispatch(nb, m)
        branch == TakesCallBranch(nb, m)
    IN  IF response_msg.fault # NoFault
        THEN Step(response_msg.fault, msgs, None, <<>>, <<>>, <<>>, FALSE)
        ELSE IF d.fault # NoFault
        THEN Step(d.fault, appended, None,
                  IF branch THEN <<Dispatched(m, d)>> ELSE <<>>, before \o d.out,
                  IF branch THEN <<"FunctionRequested">> ELSE <<>>, FALSE)
        ELSE Step(NoFault, appended, d.result,
                  IF branch THEN <<Dispatched(m, d)>> ELSE <<>>, before \o d.out \o after,
                  IF branch THEN <<"FunctionRequested", "FunctionExecuted", "Answered">>
                            ELSE <<"DirectAnswer", "Answered">>, FALSE)

\* the code that runs on the returned response
AfterResponse(nb, n, msgs, res, response) ==
    IF nb = "chinook"
    THEN IF n = 1 THEN do_conversation_first(msgs, response)
                  ELSE do_conversation_second(msgs, res, response)
    ELSE cell(nb, msgs, response)

\* The code after a returned call, up to the next request, the end of the
\* exchange, or the fault that ends it.
HandleResponse ==
    /\ pc = "returned"
    /\ \E st \in {AfterResponse(notebook, call_no, messages, results, chat_response)} :
           /\ messages' = st.messages
           /\ results' = st.results
           /\ dispatched' = dispatched \o st.dispatched
           /\ printed' = printed \o st.out
           /\ path' = path \o st.path
           /\ fault' = st.fault
           /\ pc' = IF st.fault # NoFault THEN "raised"
                    ELSE IF st.followUp THEN "request" ELSE "done"
           /\ call_no' = IF st.followUp THEN call_no + 1 ELSE call_no
           /\ attempt' = IF st.followUp THEN 1 ELSE attempt
    /\ \E m \in {JsonMessage(chat_response)} :
           response_message' = IF call_no = 1 /\ m.fault = NoFault THEN m.val
                               ELSE response_message
    /\ UNCHANGED <<notebook, api_key, exchange, user_input, chat_response, posts>>

Next ==
    \/ StartExchange
    \/ AttemptReturns
    \/ AttemptRetried
    \/ AttemptsExhausted
    \/ HandleResponse

Spec == Init /\ [][Next]_vars

(***************************************************************************)
(* Properties.                                                             *)
(***************************************************************************)
\* the name is registered at the notebook's dispatch site
Registered(name) == name \in available_functions(notebook)

\* the first response of the exchange was read and carried this kind of message
FirstCarriesCall == response_message # NoMessage /\ CarriesCall(response_message)

FirstCarriesNone == response_message # NoMessage /\ ~CarriesCall(response_message)

\* the exchange is over
Ended == pc \in {"done", "raised"}

\* C1: whenever a dispatch site ran on a function_call whose name is not in
\* the dispatch table, it raised nothing and its result is the text
\* "Error: function <name> does not exist".
C1_UnknownFunctionReported ==
    \A i \in 1..Len(dispatched) :
        ~Registered(dispatched[i].message.function_call.name)
        => /\ dispatched[i].fault = NoFault
           /\ dispatched[i].result = DoesNotExist(dispatched[i].message.function_call.name)

\* C2: whenever a dispatch site ran on a function_call with a registered name
\* and arguments that are not parseable JSON, it raised nothing, returned a
\* text describing the failure, and invoked no handler.
C2_DecodeFailureReported ==
    \A i \in 1..Len(dispatched) :
        (/\ Registered(dispatched[i].message.function_call.name)
         /\ json_loads(dispatched[i].message.function_call.arguments).fault # NoFault)
        => /\ dispatched[i].fault = NoFault
           /\ dispatched[i].result.k = "str"
           /\ dispatched[i].invoked = <<>>

\* C3: a call of chat_completion_request that ended on a transport failure
\* (requests.post raised) made all MaxAttempts attempts first.
C3_TransportFailureRetried ==
    (pc = "returned" /\ chat_response = PostException) => attempt = MaxAttempts

\* C4: no call of chat_completion_request returns normally with the transport
\* failure as its value; what the driver reads as a response is a response.
C4_FailureNotReturned ==
    pc = "returned" => chat_response.kind = "response"

\* C5: whenever a handler was invoked by a dispatch site and raised, the site
\* raised nothing and gave a text as its result.
C5_HandlerFaultCaught ==
    \A i \in 1..Len(dispatched) :
        (/\ dispatched[i].invoked # <<>>
         /\ Handler(dispatched[i].invoked[1].name, dispatched[i].invoked[1].args).fault # NoFault)
        => /\ dispatched[i].fault = NoFault
           /\ dispatched[i].result.k = "str"

\* C6: once the first response is read, the dispatch site has run if and
\* only if the response carries a function_call; a response that carries
\* none (key absent or null) ends the exchange as Answered, without a fault.
C6_FunctionRequestedIffCall ==
    /\ FirstCarriesCall => dispatched # <<>>
    /\ FirstCarriesNone =>
          /\ dispatched = <<>>
          /\ fault = NoFault
          /\ pc = "done"
          /\ path = <<"AwaitingModelDecision", "DirectAnswer", "Answered">>

\* the roles of the turns of msgs
Roles(msgs) == [i \in 1..Len(msgs) |-> msgs[i].role]

\* C7: a completed exchange of do_conversation whose first response carried a
\* function_call has exactly the turns system, user, assistant, function,
\* assistant; the function turn follows the assistant turn that requested it,
\* carries that turn's function_call name, and its content is the result of
\* the dispatch.
C7_TurnSequence ==
    (notebook = "chinook" /\ pc = "done" /\ FirstCarriesCall)
    => /\ Roles(messages) = <<"system", "user", "assistant", "function", "assistant">>
       /\ messages[3] = response_message
       /\ messages[4].name = response_message.function_call.name
       /\ Len(dispatched) = 1
       /\ messages[4].content = dispatched[1].result

C7_Witness ==
    /\ notebook = "chinook" /\ pc = "done" /\ FirstCarriesCall
    /\ response_message.function_call.name = Unicorn
    /\ Len(messages) = 5

\* C8: the second request of an exchange carries the whole turn history,
\* the function turn just appended included, and no forced function, while
\* the first request of do_conversation carries one.
C8_FollowUpRequest ==
    (notebook = "chinook" /\ Len(posts) >= 2)
    => /\ posts[2].messages = SubSeq(messages, 1, 4)
       /\ Roles(posts[2].messages) = <<"system", "user", "assistant", "function">>
       /\ posts[2].messages[4].content = results
       /\ ~posts[2].has_function_call
       /\ posts[1].has_function_call
       /\ posts[1].messages = SubSeq(messages, 1, 2)

C8_Witness ==
    /\ notebook = "chinook" /\ Len(posts) = 2 /\ pc = "done"
    /\ posts[1].has_function_call /\ posts[1].function_call = "ask_database"

\* C9: in do_conversation, a first response that calls a name absent from
\* the dispatch table does not end the exchange: the text
\* "Error: function <name> does not exist" is appended as the function turn
\* and the driver is at, or past, its follow-up request.
C9_UnknownFunctionContinues ==
    (notebook = "chinook" /\ FirstCarriesCall
        /\ ~Registered(response_message.function_call.name))
    => /\ Len(messages) >= 4
       /\ messages[4] = Turn("function", DoesNotExist(response_message.function_call.name),
                             NoCall("absent"), response_message.function_call.name)
       /\ call_no = 2
       /\ SubSeq(path, 1, 4) = <<"AwaitingModelDecision", "FunctionRequested",
                                 "FunctionExecuted", "AwaitingFollowUp">>
       /\ (pc = "raised" => Len(posts) = 2)

C9_Witness ==
    /\ notebook = "chinook" /\ FirstCarriesCall
    /\ response_message.function_call.name = Unicorn
    /\ Len(posts) = 2
    /\ posts[2].messages[4].content = Str(<<"Error: function ", "unicorn", " does not exist">>)

\* the exchange displayed the conversation
AnswerDisplayed == \E i \in 1..Len(printed) : printed[i].ev = "conversation"

\* the exchange displayed a failure
FailureDisplayed ==
    \E i \in 1..Len(printed) : printed[i].ev = "Unable to generate ChatCompletion response"

\* C10: an exchange of do_conversation that has ended has displayed the turn
\* sequence as an answer or has displayed a terminal failure.
C10_EndsDisplayed ==
    (notebook = "chinook" /\ Ended) => (AnswerDisplayed \/ FailureDisplayed)

\* C11: an exchange makes at most two calls of chat_completion_request, posts
\* at most two requests and runs the dispatch site at most once; when the
\* second response of do_conversation carries a function_call, that turn is
\* appended as the answer and the exchange ends without another dispatch.
C11_NeverLoops ==
    /\ call_no <= 2
    /\ Len(posts) <= 2
    /\ Len(dispatched) <= 1
    /\ (notebook = "chinook" /\ pc = "done" /\ call_no = 2)
        => /\ Len(messages) = 5
           /\ path = <<"AwaitingModelDecision", "FunctionRequested", "FunctionExecuted",
                       "AwaitingFollowUp", "Answered">>

C11_Witness ==
    /\ notebook = "chinook" /\ pc = "done" /\ call_no = 2
    /\ Len(messages) = 5 /\ CarriesCall(messages[5])
    /\ Len(posts) = 2 /\ Len(dispatched) = 1

\* C12: whenever ask_database was invoked, with a str or any other value as
\* its query, it raised nothing: the site's result is the str of the rows when
\* conn.execute succeeded, and a str that begins with
\* "query failed with error: " when it failed.
C12_AskDatabaseNeverRaises ==
    \A i \in 1..Len(dispatched) :
        \A j \in 1..Len(dispatched[i].invoked) :
            dispatched[i].invoked[j].name = "ask_database"
            => /\ dispatched[i].fault = NoFault
               /\ dispatched[i].result.k = "str"
               /\ conn_execute(dispatched[i].invoked[j].args[1]).fault = NoFault
                  => dispatched[i].result = conn_execute(dispatched[i].invoked[j].args[1]).val
               /\ conn_execute(dispatched[i].invoked[j].args[1]).fault # NoFault
                  => Head(dispatched[i].result.s) = QueryFailedPrefix

C12_Witness ==
    /\ notebook = "chinook"
    /\ Len(dispatched) = 1
    /\ dispatched[1].invoked = <<Invocation("ask_database", "single", <<Str(<<"selec count(*)">>)>>)>>
    /\ dispatched[1].result = Str(<<QueryFailedPrefix, "syntax error">>)
    /\ Len(messages) >= 4 /\ messages[4].content = dispatched[1].result

\* the JSON type of a parsed value
JsonType(v) ==
    CASE v.k = "str" -> "string"
      [] v.k = "num" -> "number"
      [] v.k = "arr" -> "array"
      [] v.k = "obj" -> "object"
      [] OTHER -> "null"

\* v is a value of the declared property prop
OfType(v, prop) ==
    /\ JsonType(v) = prop.type
    /\ prop.type = "array" => \A i \in 1..Len(v.items) : JsonType(v.items[i]) = prop.items

\* the arguments text is an object that gives every property declared for
\* the function, each with a value of its declared type, and nothing else
Conforms(nb, name, arguments) ==
    /\ json_loads(arguments).fault = NoFault
    /\ json_loads(arguments).val.k = "obj"
    /\ \A i \in 1..Len(properties(nb, name)) :
           /\ HasKey(json_loads(arguments).val, properties(nb, name)[i].name)
           /\ OfType(Subscript(json_loads(arguments).val, properties(nb, name)[i].name).val,
                     properties(nb, name)[i])
    /\ \A j \in 1..Len(json_loads(arguments).val.fields) :
           \E i \in 1..Len(properties(nb, name)) :
               json_loads(arguments).val.fields[j].key = <<properties(nb, name)[i].name>>

\* C13: whenever a dispatch site ran on a function_call that names a
\* registered function and whose arguments conform to the schema declared for
\* it, the handler registered under that name was invoked, once, and no other.
C13_RegisteredNameInvoked ==
    \A i \in 1..Len(dispatched) :
        (/\ Registered(dispatched[i].message.function_call.name)
         /\ Conforms(notebook, dispatched[i].message.function_call.name,
                     dispatched[i].message.function_call.arguments))
        => /\ Len(dispatched[i].invoked) = 1
           /\ dispatched[i].invoked[1].name = dispatched[i].message.function_call.name

RECURSIVE SeqSum(_)
\* the sum of the numbers of a sequence of num values
SeqSum(nums) == IF nums = <<>> THEN 0 ELSE Head(nums).n + SeqSum(Tail(nums))

RECURSIVE SeqProduct(_)
\* the product of the numbers of a sequence of num values
SeqProduct(nums) == IF nums = <<>> THEN 1 ELSE Head(nums).n * SeqProduct(Tail(nums))

\* the elements of the "input" array of an arguments text
InputItems(arguments) == Subscript(json_loads(arguments).val, "input").val.items

\* C14: in the add/multiply notebook, a function_call of add or multiply whose
\* "input" is an array of numbers raises nothing and its result is the sum,
\* respectively the product, of the elements: 139 for add of [5, 34, 100],
\* 0 for add and 1 for multiply of the empty array.
C14_SumAndProduct ==
    notebook = "addmul" =>
        \A i \in 1..Len(dispatched) :
            (/\ dispatched[i].message.function_call.name \in {"add", "multiply"}
             /\ Conforms("addmul", dispatched[i].message.function_call.name,
                         dispatched[i].message.function_call.arguments))
            => /\ dispatched[i].fault = NoFault
               /\ dispatched[i].message.function_call.name = "add"
                  => /\ dispatched[i].result
                          = Num(SeqSum(InputItems(dispatched[i].message.function_call.arguments)))
                     /\ dispatched[i].message.function_call.arguments = P_add
                          => dispatched[i].result = Num(139)
                     /\ dispatched[i].message.function_call.arguments = P_empty
                          => dispatched[i].result = Num(0)
               /\ dispatched[i].message.function_call.name = "multiply"
                  => /\ dispatched[i].result
                          = Num(SeqProduct(InputItems(dispatched[i].message.function_call.arguments)))
                     /\ dispatched[i].message.function_call.arguments = P_empty
                          => dispatched[i].result = Num(1)

C14_Witness ==
    /\ notebook = "addmul" /\ pc = "done"
    /\ Len(dispatched) = 1
    /\ dispatched[1].message.function_call = Call("add", P_add)
    /\ dispatched[1].invoked = <<Invocation("add", "positional", <<Num(5), Num(34), Num(100)>>)>>
    /\ results = Num(139)
    /\ \E i \in 1..Len(printed) : printed[i] = Line("result", Num(139))

\* the characters of a sequence
Chars(seq) == {seq[i] : i \in 1..Len(seq)}

\* C15: whenever alternate_cases was invoked on a str, it raised nothing and
\* its result is a str of the same length whose character at each even
\* 0-based index is the lower case form, and at each odd index the upper case
\* form, of the input's character at that index.
C15_AlternateCases ==
    \A i \in 1..Len(dispatched) :
        (/\ dispatched[i].invoked # <<>>
         /\ dispatched[i].invoked[1].name = "alternate_cases"
         /\ dispatched[i].invoked[1].args[1].k = "str")
        => /\ dispatched[i].fault = NoFault
           /\ dispatched[i].result.k = "str"
           /\ Len(dispatched[i].result.s) = Len(dispatched[i].invoked[1].args[1].s)
           /\ \A p \in 1..Len(dispatched[i].result.s) :
                 /\ CaseMap(dispatched[i].result.s[p], Capitals, Letters, 1)
                        = CaseMap(dispatched[i].invoked[1].args[1].s[p], Capitals, Letters, 1)
                 /\ (p - 1) % 2 = 0 => dispatched[i].result.s[p] \notin Chars(Capitals)
                 /\ (p - 1) % 2 = 1 => dispatched[i].result.s[p] \notin Chars(Letters) \cup {SharpS}

\* C17: whenever a dispatch site ran on a function_call with a registered
\* name whose arguments parse as JSON but lack the key the site subscripts
\* them with, it raised nothing, invoked no handler and gave a text as result.
C17_MissingFieldReported ==
    \A i \in 1..Len(dispatched) :
        (/\ Registered(dispatched[i].message.function_call.name)
         /\ required_field(notebook) # ""
         /\ json_loads(dispatched[i].message.function_call.arguments).fault = NoFault
         /\ ~HasKey(json_loads(dispatched[i].message.function_call.arguments).val,
                    required_field(notebook)))
        => /\ dispatched[i].fault = NoFault
           /\ dispatched[i].result.k = "str"
           /\ dispatched[i].invoked = <<>>

\* C18: with no API credential nothing is requested: no exchange starts, no
\* attempt of chat_completion_request is made or repeated, and no call ends
\* in tenacity's RetryError.
C18_MissingCredentialFatalAtStartup ==
    api_key = "None"
    => /\ exchange = 0
       /\ attempt = 0
       /\ fault # "RetryError"

\* C19: every invocation of add or multiply is positional-variadic, its
\* arguments the elements of the array the site read, and every invocation
\* of sentiment is by keyword, at every site and for every call.
C19_ConventionFixed ==
    \A i \in 1..Len(dispatched) :
        \A j \in 1..Len(dispatched[i].invoked) :
            /\ dispatched[i].invoked[j].name \in {"add", "multiply"}
               => /\ dispatched[i].invoked[j].conv = "positional"
                  /\ dispatched[i].invoked[j].args
                        = Iterate(Subscript(json_loads(dispatched[i].message.function_call.arguments).val,
                                            required_field(notebook)).val).val.items
            /\ dispatched[i].invoked[j].name = "sentiment"
               => dispatched[i].invoked[j].conv = "keyword"

\* C20: whenever a dispatch site ran on a function_call that names a
\* registered function and whose arguments conform to the schema declared for
\* it, the site found the key it subscripts the arguments with: it raised no
\* KeyError.
C20_SiteReadsDeclaredField ==
    \A i \in 1..Len(dispatched) :
        (/\ Registered(dispatched[i].message.function_call.name)
         /\ Conforms(notebook, dispatched[i].message.function_call.name,
                     dispatched[i].message.function_call.arguments))
        => dispatched[i].fault # "KeyError"

\* C21: whenever the alternate_cases cell looked the called name up in the
\* functions list, the lookup raised nothing: it gave the entry of that name,
\* or an outcome that says there is none.
C21_FindNeverRaises ==
    notebook = "altcase" =>
        \A i \in 1..Len(dispatched) :
            /\ find(functions("altcase"), dispatched[i].message.function_call.name).fault = NoFault
            /\ dispatched[i].fault # "IndexError"

\* a is a prefix of b
IsPrefix(a, b) == Len(a) <= Len(b) /\ SubSeq(b, 1, Len(a)) = a

\* C22: no step of an exchange modifies, reorders or removes a turn of the
\* messages list: unless the step binds messages to a new list for a new
\* exchange, the list before the step is a prefix of the list after it.
C22_AppendOnly ==
    [][(~rebuilds_messages(notebook) \/ exchange' = exchange)
       => IsPrefix(messages, messages')]_vars

\* C23: the first request of every exchange, the first and each later one,
\* carries exactly two turns, the notebook's system turn and a user turn
\* whose content is the input of this exchange.
C23_NoTurnCrossesExchanges ==
    Len(posts) >= 1
    => posts[1].messages = <<SystemTurn(SystemPrompt(notebook)), UserTurn(user_input)>>

C23_Witness ==
    /\ notebook = "sentiment" /\ exchange = 3
    /\ Len(posts) = 1
    /\ posts[1].messages[2].content = inputs("sentiment")[3]
    /\ pc = "done" /\ Len(dispatched) = 1

\* the site of notebook nb can build its call from the arguments text: the
\* text parses, holds the key the site reads, and unpacks where the site
\* spreads it (*f_args) or passes it by keyword (**f_args)
ArgsDecode(nb, arguments) ==
    /\ json_loads(arguments).fault = NoFault
    /\ required_field(nb) # "" => HasKey(json_loads(arguments).val, required_field(nb))
    /\ nb = "addmul"
       => Iterate(Subscript(json_loads(arguments).val, "input").val).fault = NoFault
    /\ nb = "sentiment" => BindKeywords(json_loads(arguments).val).fault = NoFault

\* C24: a dispatch site runs at most once for the turn it was given and
\* leaves the turn as it was; it invokes the handler exactly once when the
\* name is registered and the arguments decode, and no handler when the name
\* is not registered or the turn carries no function_call.
C24_SingleInvocation ==
    /\ Len(dispatched) <= 1
    /\ FirstCarriesNone => dispatched = <<>>
    /\ \A i \in 1..Len(dispatched) :
          /\ dispatched[i].message = response_message
          /\ Len(dispatched[i].invoked) <= 1
          /\ ~Registered(dispatched[i].message.function_call.name)
             => dispatched[i].invoked = <<>>
          /\ (/\ Registered(dispatched[i].message.function_call.name)
              /\ ArgsDecode(notebook, dispatched[i].message.function_call.arguments))
             => /\ Len(dispatched[i].invoked) = 1
                /\ dispatched[i].invoked[1].name = dispatched[i].message.function_call.name

C24_Witness ==
    /\ notebook = "coffee" /\ pc = "done"
    /\ Len(dispatched) = 1
    /\ dispatched[1].message.function_call = Call("coffee", P_order)
    /\ Len(dispatched[1].invoked) = 1
    /\ messages[3] = dispatched[1].message
    /\ Cardinality({i \in 1..Len(printed) : printed[i].ev = "Ordering coffee"}) = 1

\* C25: a call of chat_completion_request never makes more than MaxAttempts
\* attempts.  A fault raised outside its try (the header built from a None
\* api_key) is never returned: the attempt is repeated and the call ends in
\* RetryError after the third attempt, nothing having been posted.  A call
\* whose POST was made returns after that attempt: one POST per call.
C25_AtMostThreeAttempts ==
    /\ attempt <= MaxAttempts
    /\ Len(posts) <= call_no
    /\ pc = "returned" => Len(posts) = call_no
    /\ (api_key = "None" /\ exchange > 0)
       => /\ pc \in {"request", "raised"}
          /\ posts = <<>>
          /\ pc = "raised" => (fault = "RetryError" /\ attempt = MaxAttempts)
    /\ fault = "RetryError" => (api_key = "None" /\ attempt = MaxAttempts)

C25_Witness ==
    /\ api_key = "None" /\ pc = "raised"
    /\ fault = "RetryError" /\ attempt = 3
    /\ posts = <<>> /\ call_no = 1

\* C26: every payload posted names the model "gpt-4" and carries the turns
\* of the messages list as they were given, in order (two at the first
\* request, four at the follow-up); it has a "functions" entry, the
\* notebook's list, exactly when the call passed one (every first request),
\* and a "function_call" entry, the forced name, exactly when the call passed
\* one (the first request of do_conversation and of the sentiment loop).
C26_RequestPayload ==
    \A n \in 1..Len(posts) :
        /\ posts[n].model = "gpt-4"
        /\ IsPrefix(posts[n].messages, messages)
        /\ Len(posts[n].messages) = (IF n = 1 THEN 2 ELSE 4)
        /\ posts[n].has_functions <=> n = 1
        /\ posts[n].functions = (IF n = 1 THEN functions(notebook) ELSE <<>>)
        /\ posts[n].has_function_call <=> (n = 1 /\ notebook \in {"chinook", "sentiment"})
        /\ posts[n].function_call
              = (IF n = 1 /\ notebook = "chinook" THEN "ask_database"
                 ELSE IF n = 1 /\ notebook = "sentiment" THEN "sentiment" ELSE "")

C26_Witness ==
    /\ notebook = "chinook" /\ Len(posts) = 2
    /\ posts[1].functions = <<"ask_database">> /\ posts[1].function_call = "ask_database"
    /\ ~posts[2].has_functions /\ ~posts[2].has_function_call
    /\ posts[2].model = "gpt-4" /\ Len(posts[2].messages) = 4

\* the query of an ask_database call
QueryOf(message) == Subscript(json_loads(message.function_call.arguments).val, "query").val

\* what the database contents and the called name determine as the content
\* of the function turn
ExpectedResults(message) ==
    IF message.function_call.name # "ask_database"
    THEN DoesNotExist(message.function_call.name)
    ELSE IF conn_execute(QueryOf(message)).fault = NoFault
    THEN conn_execute(QueryOf(message)).val
    ELSE Str(<<QueryFailedPrefix>> \o Tail(conn_execute(QueryOf(message)).val.s))

====
